---- MODULE Spec2Model ----
(***************************************************************************)
(* MonopolySimulation (SteadyState/GenerateDataForSimulation.py).          *)
(*                                                                         *)
(* The constructor builds the 40x40 transition matrix with the double loop *)
(* of generate_transition_matrix; move() then walks the chain, counting    *)
(* landings and taking a snapshot of the counter every 100 moves.          *)
(*                                                                         *)
(* Probabilities are exact rationals written as integer numerators over    *)
(* Denominator = 12^3 = 1728: every value the code adds to the matrix      *)
(* (k/36 * n/16 and (1/12)^3) is a whole number of 1728ths.                *)
(***************************************************************************)
EXTENDS Integers, Sequences, FiniteSets, TLC

VARIABLES from_square, roll, matrix, pc,
          transition_matrix, current_position, landings, move_history,
          moves_count, rng

vars == <<from_square, roll, matrix, pc, transition_matrix, current_position,
          landings, move_history, moves_count, rng>>

(***************************************************************************)
(* Bounds of the model.                                                    *)
(***************************************************************************)
\* number of move() calls explored (run_simulation's num_moves)
MaxMoves == 200
\* the pseudo-random source is a stream of RngModulus equally spaced uniforms
RngModulus == 64
\* number of seeds explored
NumSeeds == 4

(***************************************************************************)
(* Board constants.                                                        *)
(***************************************************************************)
BOARD_SIZE == 40
MAX_ROLL == 12
MIN_ROLL == 2
JAIL_SQUARE == 10
GO_TO_JAIL_SQUARE == 30
COMMUNITY_CHEST == <<2, 17, 33>>
CHANCE == <<7, 22, 36>>
STATIONS == <<5, 15, 25, 35>>
UTILITIES == <<12, 28>>
\* move(): "if self.moves_count % 100 == 0"
SnapshotInterval == 100

board_spaces ==
  << "GO", "Old Kent Road", "Community Chest 1", "Whitechapel Road", "Income Tax",
     "Kings Cross Station", "The Angel Islington", "Chance 1", "Euston Road", "Pentonville Road",
     "Jail", "Pall Mall", "Electric Company", "Whitehall", "Northumberland Avenue",
     "Marylebone Station", "Bow Street", "Community Chest 2", "Marlborough Street", "Vine Street",
     "Free Parking", "Strand", "Chance 2", "Fleet Street", "Trafalgar Square",
     "Fenchurch St Station", "Leicester Square", "Coventry Street", "Water Works", "Piccadilly",
     "Go To Jail", "Regent Street", "Oxford Street", "Community Chest 3", "Bond Street",
     "Liverpool St Station", "Chance 3", "Park Lane", "Super Tax", "Mayfair" >>

\* board_spaces[i] with Python's 0-based index
Space(i) == board_spaces[i + 1]

Squares == 0 .. (BOARD_SIZE - 1)
Rolls == MIN_ROLL .. MAX_ROLL

\* common denominator of all probabilities: 12^3 (= 3 * 36 * 16)
Denominator == 12 * 12 * 12

\* "x in L" for a Python list
In(L, x) == \E k \in 1 .. Len(L) : L[k] = x

(***************************************************************************)
(* calculate_dice_probabilities: probs[s] = #{(die1, die2) : die1 + die2   *)
(* = s} / 36.0 for s in 2..12; entries 0 and 1 stay 0.                     *)
(***************************************************************************)
calculate_dice_probabilities ==
  [s \in 0 .. MAX_ROLL |->
     LET count == Cardinality({d \in (1 .. 6) \X (1 .. 6) : d[1] + d[2] = s})
     IN  IF s \in Rolls THEN (count * Denominator) \div 36 ELSE count]

dice_probs == calculate_dice_probabilities

\* pow(1/12, 3)
ThreeDoublesProb == Denominator \div (12 * 12 * 12)

\* np.zeros((BOARD_SIZE, BOARD_SIZE))
Zeros == [i \in Squares |-> [j \in Squares |-> 0]]

\* matrix[i][j] += v
Add(m, i, j, v) == [m EXCEPT ![i][j] = @ + v]

\* variant: the default is the last element, the search does not wrap
NextAfter_NoWrap(L, d) ==
  LET later == {k \in 1 .. Len(L) : L[k] > d}
  IN  IF later = {} THEN L[Len(L)]
      ELSE L[CHOOSE k \in later : \A k2 \in later : k <= k2]

\* next((s for s in L if s > d), L[0])
NextAfter(L, d) ==
  LET later == {k \in 1 .. Len(L) : L[k] > d}
  IN  IF later = {} THEN L[1]
      ELSE L[CHOOSE k \in later : \A k2 \in later : k <= k2]

nearest_station(to_square) == NextAfter(STATIONS, to_square)
nearest_utility(to_square) == NextAfter(UTILITIES, to_square)

(***************************************************************************)
(* The branches of the if/elif chain of one loop iteration (lines 62-96),  *)
(* p being dice_probs[roll].                                               *)
(***************************************************************************)
\* variant: the roll's probability stays on the Go To Jail square
GoToJailBranch_Stay(m, i, p) == Add(m, i, GO_TO_JAIL_SQUARE, p)

\* lines 63-64: Handle "Go To Jail" square
GoToJailBranch(m, i, p) == Add(m, i, JAIL_SQUARE, p)

\* variant: the Advance to GO card is left out, its share stays on the square
CommunityChestBranch_NoGo(m, i, to_square, p) ==
  LET m1 == Add(m, i, to_square, (p * 15) \div 16)
  IN  Add(m1, i, JAIL_SQUARE, (p * 1) \div 16)

\* lines 67-70: Handle Community Chest
CommunityChestBranch(m, i, to_square, p) ==
  LET m1 == Add(m, i, to_square, (p * 14) \div 16)
      m2 == Add(m1, i, 0, (p * 1) \div 16)
  IN  Add(m2, i, JAIL_SQUARE, (p * 1) \div 16)

\* variant: the nearest station gets 1/16 instead of 1/8
ChanceBranch_StationSixteenth(m, i, to_square, p) ==
  LET m1 == Add(m, i, to_square, (p * 6) \div 16)
      m2 == Add(m1, i, 0, (p * 1) \div 16)
      m3 == Add(m2, i, 24, (p * 1) \div 16)
      m4 == Add(m3, i, 39, (p * 1) \div 16)
      m5 == Add(m4, i, 11, (p * 1) \div 16)
      m6 == Add(m5, i, 5, (p * 1) \div 16)
      m7 == Add(m6, i, JAIL_SQUARE, (p * 1) \div 16)
      back_three == (to_square - 3) % BOARD_SIZE
      m8 == Add(m7, i, back_three, (p * 1) \div 16)
      m9 == Add(m8, i, nearest_station(to_square), (p * 1) \div 16)
  IN  Add(m9, i, nearest_utility(to_square), (p * 1) \div 16)

\* lines 73-92: Handle Chance
ChanceBranch(m, i, to_square, p) ==
  LET m1 == Add(m, i, to_square, (p * 6) \div 16)
      m2 == Add(m1, i, 0, (p * 1) \div 16)
      m3 == Add(m2, i, 24, (p * 1) \div 16)
      m4 == Add(m3, i, 39, (p * 1) \div 16)
      m5 == Add(m4, i, 11, (p * 1) \div 16)
      m6 == Add(m5, i, 5, (p * 1) \div 16)
      m7 == Add(m6, i, JAIL_SQUARE, (p * 1) \div 16)
      back_three == (to_square - 3) % BOARD_SIZE
      m8 == Add(m7, i, back_three, (p * 1) \div 16)
      m9 == Add(m8, i, nearest_station(to_square), (p * 1) \div 8)
  IN  Add(m9, i, nearest_utility(to_square), (p * 1) \div 16)

\* lines 95-96: Handle normal movement
NormalBranch(m, i, to_square, p) == Add(m, i, to_square, p)

\* lines 56, 62-96
RouteRoll(m, i, r) ==
  LET to_square == (i + r) % BOARD_SIZE
      p == dice_probs[r]
  IN  IF to_square = GO_TO_JAIL_SQUARE THEN GoToJailBranch(m, i, p)
      ELSE IF In(COMMUNITY_CHEST, to_square)
        THEN CommunityChestBranch(m, i, to_square, p)
      ELSE IF In(CHANCE, to_square) THEN ChanceBranch(m, i, to_square, p)
      ELSE NormalBranch(m, i, to_square, p)

\* variant: the term is added for the Go To Jail origin too
AddThreeDoubles_EveryOrigin(m, i) == Add(m, i, JAIL_SQUARE, ThreeDoublesProb)

\* lines 59-60: Add probability for three consecutive doubles leading to jail
AddThreeDoubles(m, i) ==
  IF i # GO_TO_JAIL_SQUARE THEN Add(m, i, JAIL_SQUARE, ThreeDoublesProb) ELSE m

(***************************************************************************)
(* Helpers of move().                                                      *)
(***************************************************************************)
RECURSIVE Cum(_, _)
\* row[0] + ... + row[j]  (cumsum)
Cum(row, j) == IF j < 0 THEN 0 ELSE row[j] + Cum(row, j - 1)

\* np.sum(row)
RowSum(row) == Cum(row, BOARD_SIZE - 1)

\* row / np.sum(row): entry j is the rational num/den
Normalise(row) == [j \in Squares |-> [num |-> row[j], den |-> RowSum(row)]]

\* variant: the cdf is searched one index too far
Choice_OffByOne(p, u) ==
  LET nums == [j \in Squares |-> p[j].num]
      den == p[0].den
      over == {j \in Squares : Cum(nums, j) * RngModulus > u * den}
      first == CHOOSE j \in over : \A j2 \in over : j <= j2
  IN  IF first + 1 < BOARD_SIZE THEN first + 1 ELSE first

\* np.random.choice(range(BOARD_SIZE), p=p) with the uniform draw u/RngModulus:
\* cdf.searchsorted(u, side='right'), the first index whose cdf exceeds u
Choice(p, u) ==
  LET nums == [j \in Squares |-> p[j].num]
      den == p[0].den
      over == {j \in Squares : Cum(nums, j) * RngModulus > u * den}
  IN  CHOOSE j \in over : \A j2 \in over : j <= j2

\* the library's pseudo-random stream: the next state of the generator
NextRandom(s) == (5 * s + 3) % RngModulus

Seeds == 0 .. (NumSeeds - 1)

\* variant: the history is replaced by the snapshot instead of extended
Snapshot_Replace(history, l) == <<l>>

\* variant: append(self.landings) without the copy, every entry aliases
\* the live counter
Snapshot_Alias(history, l) == [k \in 1 .. (Len(history) + 1) |-> l]

\* self.move_history.append(dict(self.landings))
Snapshot(history, l) == Append(history, l)

\* variant: the count is set to 1 instead of incremented
Increment_Set(l, space) ==
  [s \in DOMAIN l \cup {space} |-> IF s = space THEN 1 ELSE l[s]]

\* self.landings[space] += 1 on a defaultdict(int)
Increment(l, space) ==
  [s \in DOMAIN l \cup {space} |->
     IF s = space THEN (IF s \in DOMAIN l THEN l[s] ELSE 0) + 1 ELSE l[s]]

\* the probabilities np.random.choice accepts: no NaN (0/0), none negative
ValidRow(row) == RowSum(row) # 0 /\ \A j \in Squares : row[j] >= 0

(***************************************************************************)
(* __init__ up to the call of generate_transition_matrix.                  *)
(***************************************************************************)
Init ==
  /\ current_position = 0
  /\ landings = <<>>
  /\ move_history = <<>>
  /\ matrix = Zeros
  /\ from_square = 0
  /\ roll = MIN_ROLL
  /\ pc = "doubles"
  /\ transition_matrix = <<>>
  /\ moves_count = 0
  /\ rng \in Seeds

\* lines 58-60: the three-consecutive-doubles term of one loop iteration
ThreeDoubles ==
  /\ pc = "doubles"
  /\ matrix' = AddThreeDoubles(matrix, from_square)
  /\ pc' = "route"
  /\ UNCHANGED <<from_square, roll, transition_matrix, current_position,
                 landings, move_history, moves_count, rng>>

\* lines 62-96 and the step of the two for loops
Route ==
  /\ pc = "route"
  /\ matrix' = RouteRoll(matrix, from_square, roll)
  /\ IF roll < MAX_ROLL
       THEN roll' = roll + 1 /\ from_square' = from_square /\ pc' = "doubles"
     ELSE IF from_square < BOARD_SIZE - 1
       THEN roll' = MIN_ROLL /\ from_square' = from_square + 1 /\ pc' = "doubles"
     ELSE roll' = roll /\ from_square' = from_square /\ pc' = "return"
  /\ UNCHANGED <<transition_matrix, current_position, landings, move_history,
                 moves_count, rng>>

\* line 98 and __init__ lines 32-33
Return ==
  /\ pc = "return"
  /\ transition_matrix' = matrix
  /\ moves_count' = 0
  /\ pc' = "sim"
  /\ UNCHANGED <<from_square, roll, matrix, current_position, landings,
                 move_history, rng>>

\* move()
Move ==
  /\ pc = "sim"
  /\ moves_count < MaxMoves
  /\ LET row == transition_matrix[current_position]
     IN  IF ~ValidRow(row)
           THEN /\ pc' = "error"
                /\ UNCHANGED <<current_position, landings, moves_count,
                               move_history, rng>>
           ELSE LET current_position_probabilities == Normalise(row)
                    next_position == Choice(current_position_probabilities, rng)
                    space == Space(next_position)
                    counted == Increment(landings, space)
                IN  /\ current_position' = next_position
                    /\ landings' = counted
                    /\ moves_count' = moves_count + 1
                    /\ move_history' =
                         IF (moves_count + 1) % SnapshotInterval = 0
                           THEN Snapshot(move_history, counted)
                           ELSE move_history
                    /\ rng' = NextRandom(rng)
                    /\ pc' = pc
  /\ UNCHANGED <<from_square, roll, matrix, transition_matrix>>

Next == ThreeDoubles \/ Route \/ Return \/ Move

Spec == Init /\ [][Next]_vars

(***************************************************************************)
(* Vocabulary of the properties.                                           *)
(***************************************************************************)
\* row i of the matrix under construction is complete
RowBuilt(i) == pc \in {"return", "sim", "error"} \/ i < from_square

\* number of (die1, die2) pairs with sum r: P(r) = Ways(r) / 36
Ways(r) == IF r <= 7 THEN r - 1 ELSE 13 - r

\* raw destination of the loop iteration the state is in
RawDestination == (from_square + roll) % BOARD_SIZE

\* 1 if the condition holds, else 0
Ind(b) == IF b THEN 1 ELSE 0

\* what the step adds to entry (from_square, j)
Delta(j) == matrix'[from_square][j] - matrix[from_square][j]

\* the step leaves every row but from_square alone
OtherRowsKept == \A i \in Squares \ {from_square} : matrix'[i] = matrix[i]

\* the smallest member of S greater than d, the smallest member if none is
CyclicNext(S, d) ==
  LET after == {s \in S : s > d}
      least(T) == CHOOSE t \in T : \A t2 \in T : t <= t2
  IN  IF after = {} THEN least(S) ELSE least(after)

StationSet == {5, 15, 25, 35}
UtilitySet == {12, 28}

(***************************************************************************)
(* C1: every completed row of the matrix sums to exactly 1.                *)
(***************************************************************************)
C1_RowsSumToOne ==
  \A i \in Squares : RowBuilt(i) => RowSum(matrix[i]) = Denominator

(***************************************************************************)
(* C4: an iteration whose raw destination d is a Community Chest square    *)
(* adds exactly P(r)*14/16 to d, P(r)/16 to square 0, P(r)/16 to Jail and  *)
(* nothing to any other entry; the three parts sum to P(r).                *)
(***************************************************************************)
C4_CommunityChestSplit ==
  [][(pc = "route" /\ RawDestination \in {2, 17, 33}) =>
       /\ \A j \in Squares :
            36 * 16 * Delta(j) =
              Ways(roll) * Denominator *
                (14 * Ind(j = RawDestination) + Ind(j = 0) + Ind(j = 10))
       /\ 36 * (Delta(RawDestination) + Delta(0) + Delta(10))
            = Ways(roll) * Denominator
       /\ OtherRowsKept]_vars

\* the iteration (from_square 0, roll 2) onto Community Chest 1 has run
C4_Witness ==
  /\ pc = "doubles" /\ from_square = 0 /\ roll = 3
  /\ matrix[0][2] > 0 /\ matrix[0][0] > 0

(***************************************************************************)
(* C5: an iteration whose raw destination d is a Chance square distributes *)
(* P(r) over d (6/16), squares 0, 24, 39, 11, 5, Jail and (d-3) mod 40     *)
(* (1/16 each), the next station (1/8) and the next utility (1/16), and    *)
(* over nothing else; the parts credited sum to exactly P(r).              *)
(***************************************************************************)
C5_ChanceSplit ==
  [][(pc = "route" /\ RawDestination \in {7, 22, 36}) =>
       LET d == RawDestination
           weight(j) ==
             6 * Ind(j = d) + Ind(j = 0) + Ind(j = 24) + Ind(j = 39)
             + Ind(j = 11) + Ind(j = 5) + Ind(j = 10)
             + Ind(j = (d - 3) % 40)
             + 2 * Ind(j = CyclicNext(StationSet, d))
             + Ind(j = CyclicNext(UtilitySet, d))
           credited == Cum([j \in Squares |-> Delta(j)], 39)
       IN  /\ \A j \in Squares :
                36 * 16 * Delta(j) = Ways(roll) * Denominator * weight(j)
           /\ 36 * credited = Ways(roll) * Denominator
           /\ OtherRowsKept]_vars

\* the iteration (from_square 0, roll 7) onto Chance 1 has run
C5_Witness ==
  /\ pc = "doubles" /\ from_square = 0 /\ roll = 8
  /\ matrix[0][7] > 0 /\ matrix[0][4] > 0 /\ matrix[0][15] > 0

(***************************************************************************)
(* C6: the three-doubles term (1/12)^3 is added to matrix[i][Jail] once    *)
(* per roll value, 11/1728 in all for an origin other than Go To Jail and  *)
(* 0 for origin 30; the rest of a completed row sums to exactly 1.         *)
(***************************************************************************)
C6_ThreeDoublesPerRoll ==
  /\ [][pc = "doubles" =>
         /\ \A j \in Squares :
              1728 * Delta(j) =
                Denominator * Ind(j = 10 /\ from_square # 30)
         /\ OtherRowsKept]_vars
  /\ [][pc = "route" =>
         /\ 36 * Cum([j \in Squares |-> Delta(j)], 39)
              = Ways(roll) * Denominator
         /\ OtherRowsKept]_vars
  /\ [](\A i \in Squares : RowBuilt(i) =>
          1728 * RowSum(matrix[i])
            = 1728 * Denominator + 11 * Denominator * Ind(i # 30))

\* rows 0 (ordinary origin) and 30 (Go To Jail) are complete
C6_Witness ==
  /\ pc = "doubles" /\ from_square = 31
  /\ RowSum(matrix[0]) > RowSum(matrix[30]) /\ RowSum(matrix[30]) > 0

(***************************************************************************)
(* C8: the station (utility) credited for Chance square d is the smallest  *)
(* one greater than d, the first of the list when there is none: 15 and 12 *)
(* for d = 7, 25 and 28 for d = 22, 5 and 12 for d = 36, where square 5    *)
(* receives 1/16 + 1/8 = 3/16 of P(r).                                     *)
(***************************************************************************)
C8_NearestStationUtility ==
  [][(pc = "route" /\ RawDestination \in {7, 22, 36}) =>
       LET d == RawDestination
           station == IF d = 7 THEN 15 ELSE IF d = 22 THEN 25 ELSE 5
           utility == IF d = 7 THEN 12 ELSE IF d = 22 THEN 28 ELSE 12
       IN  /\ station = CyclicNext(StationSet, d)
           /\ utility = CyclicNext(UtilitySet, d)
           /\ 36 * 16 * Delta(station)
                = Ways(roll) * Denominator * (IF d = 36 THEN 3 ELSE 2)
           /\ 36 * 16 * Delta(utility) = Ways(roll) * Denominator
           /\ \A s \in (StationSet \cup UtilitySet) \ {station, utility} :
                36 * 16 * Delta(s) = Ways(roll) * Denominator * Ind(s = 5)]_vars

\* the iteration (from_square 25, roll 11) onto Chance 3 (the wrap) has run
C8_Witness ==
  /\ pc = "doubles" /\ from_square = 25 /\ roll = 12
  /\ matrix[25][36] > 0 /\ matrix[25][5] > 0 /\ matrix[25][12] > 0

(***************************************************************************)
(* Vocabulary of the properties of move().                                 *)
(***************************************************************************)
RECURSIVE Total(_)
\* the sum of the counts of a landing counter
Total(l) ==
  IF DOMAIN l = {} THEN 0
  ELSE LET s == CHOOSE x \in DOMAIN l : TRUE
       IN  l[s] + Total([x \in DOMAIN l \ {s} |-> l[x]])

\* the count of a square in a landing counter, 0 when it is absent
CountOf(l, s) == IF s \in DOMAIN l THEN l[s] ELSE 0

SpaceNames == {Space(i) : i \in Squares}

\* a step of move() that returns
IsMove == pc = "sim" /\ pc' = "sim"

C9_RowIsDistribution ==
  /\ [](pc # "error")
  /\ [](pc = "sim" =>
          LET row == transition_matrix[current_position]
              p == Normalise(row)
          IN  /\ \A j \in Squares : row[j] >= 0
              /\ RowSum(row) > 0
              /\ \A j \in Squares : p[j].den > 0 /\ p[j].num >= 0
              /\ \A j \in Squares : p[j].den = p[0].den
              /\ Cum([j \in Squares |-> p[j].num], 39) = p[0].den)
  /\ [][pc = "sim" =>
          transition_matrix[current_position][current_position'] > 0]_vars

\* the walk has left a square other than GO
C9_Witness ==
  pc = "sim" /\ moves_count >= 2 /\ current_position # 0

====
